---- MODULE Spec2Model ----
(***************************************************************************)
(* Model of mortage_calculator.py: the four formula functions, the sweep   *)
(* over loan terms 1..30 that builds term_results, and the two reporting   *)
(* loops that read it.                                                     *)
(*                                                                         *)
(* Python floats are binary floating-point numbers of finite precision     *)
(* (binary64).  The model keeps that: a number is m * 2^e with a           *)
(* significand of Precision bits, and every arithmetic operation rounds    *)
(* its exact result to the nearest representable number, ties to even.     *)
(* The exponent is unbounded, so overflow to inf and underflow are not     *)
(* modelled; the configurations drawn in Init stay far from both.          *)
(***************************************************************************)
EXTENDS Integers, Sequences, FiniteSets, TLC

\* Significand width of the modelled floating-point format.
Precision == 12

\* ---------------------------------------------------------------------
\* Floating-point arithmetic (Python float operators)
\* ---------------------------------------------------------------------

Abs(n) == IF n < 0 THEN -n ELSE n

Sgn(n) == IF n < 0 THEN -1 ELSE 1

\* Number of binary digits of n > 0.
Bits(n) == CHOOSE k \in 1..30 : 2^(k-1) <= n /\ n < 2^k

Zero == [m |-> 0, e |-> 0]

\* Round sg * M * 2^e (M >= 0; sticky: some nonzero digits lie below M)
\* to Precision bits, nearest, ties to even.
Norm(sg, M, e, sticky) ==
    IF M = 0 THEN Zero
    ELSE LET k == Bits(M) - Precision IN
         IF k <= 0 THEN [m |-> sg * M * 2^(-k), e |-> e + k]
         ELSE LET q  == M \div 2^k
                  r  == M % 2^k
                  h  == 2^(k-1)
                  up == r > h \/ (r = h /\ (sticky \/ q % 2 = 1))
                  q2 == IF up THEN q + 1 ELSE q
              IN  IF q2 = 2^Precision
                  THEN [m |-> sg * 2^(Precision-1), e |-> e + k + 1]
                  ELSE [m |-> sg * q2, e |-> e + k]

\* int -> float
FromInt(n) == Norm(Sgn(n), Abs(n), 0, FALSE)

FNeg(a) == [m |-> -a.m, e |-> a.e]

\* a * b
FMul(a, b) == Norm(Sgn(a.m) * Sgn(b.m), Abs(a.m) * Abs(b.m), a.e + b.e, FALSE)

\* a / b for b # 0 (the callers raise ZeroDivisionError for b = 0)
FDiv(a, b) ==
    IF a.m = 0 THEN Zero
    ELSE LET num == Abs(a.m) * 2^(Precision+2)
             den == Abs(b.m)
         IN  Norm(Sgn(a.m) * Sgn(b.m), num \div den,
                  a.e - b.e - (Precision+2), num % den # 0)

\* a + b
FAdd(a, b) ==
    IF a.m = 0 THEN b
    ELSE IF b.m = 0 THEN a
    ELSE LET hi == IF a.e >= b.e THEN a ELSE b
             lo == IF a.e >= b.e THEN b ELSE a
             d  == hi.e - lo.e
         IN  IF d >= Precision + 2 THEN hi
             ELSE LET S == hi.m * 2^d + lo.m
                  IN  Norm(Sgn(S), Abs(S), lo.e, FALSE)

\* a - b
FSub(a, b) == FAdd(a, FNeg(b))

\* a < b, a > b, a >= b
FLt(a, b) == FSub(a, b).m < 0

FGt(a, b) == FLt(b, a)

FGe(a, b) == ~FLt(a, b)

FLe(a, b) == ~FLt(b, a)

One == FromInt(1)

\* The float a decimal literal num/den denotes.
Dec(num, den) == FDiv(FromInt(num), FromInt(den))

\* Largest s with s*s <= n, by bisection on [lo, hi).
RECURSIVE ISqrt(_, _, _)
ISqrt(n, lo, hi) ==
    IF hi - lo <= 1 THEN lo
    ELSE LET mid == (lo + hi) \div 2
         IN  IF mid * mid <= n THEN ISqrt(n, mid, hi) ELSE ISqrt(n, lo, mid)

\* sqrt(a) for a > 0
FSqrt(a) ==
    LET odd == (a.e % 2) # 0
        sh  == IF odd THEN Precision + 1 ELSE Precision + 2
        M   == a.m * 2^sh
        s   == ISqrt(M, 0, 2^(Precision+2))
    IN  Norm(1, s, (a.e - sh) \div 2, s * s # M)

\* b ** n for an integer n >= 0, by repeated squaring; every product is
\* rounded.
RECURSIVE PowNat(_, _)
PowNat(b, n) ==
    IF n = 0 THEN One
    ELSE LET h  == PowNat(b, n \div 2)
             sq == FMul(h, h)
         IN  IF n % 2 = 1 THEN FMul(sq, b) ELSE sq

\* An exponent num/den with den in {1, 2}: Python's int years, or term / 2.
Whole(n) == <<n, 1>>

Div2(n) == <<n, 2>>

\* pow(b, x) and math.pow(b, x) for b > 0 and x = x[1] / x[2]
FPow(b, x) ==
    LET an == Abs(x[1])
        p  == IF an % x[2] # 0
              THEN FMul(PowNat(b, an \div x[2]), FSqrt(b))
              ELSE PowNat(b, an \div x[2])
    IN  IF x[1] < 0 THEN FDiv(One, p) ELSE p

\* ---------------------------------------------------------------------
\* Program constants
\* ---------------------------------------------------------------------

years_30 == 30

MonthsPerYear == 12

\* ---------------------------------------------------------------------
\* Formula functions
\* ---------------------------------------------------------------------

\* A float result, or the exception the evaluation raised.
Ok(v) == [err |-> "none", val |-> v]

Raise(x) == [err |-> x, val |-> Zero]

calculate_monthly_payment(loan_amount_, annual_interest_rate_, years) ==
    LET monthly_interest_rate == FDiv(annual_interest_rate_, FromInt(MonthsPerYear))
        num_payments == MonthsPerYear * years
        numerator    == FMul(loan_amount_, monthly_interest_rate)
        denominator  == FSub(One, FPow(FAdd(One, monthly_interest_rate),
                                       Whole(-num_payments)))
    IN  IF denominator.m = 0
        THEN Raise("ZeroDivisionError")
        ELSE Ok(FDiv(numerator, denominator))

calculate_total_interest(loan_amount_, monthly_payment, years) ==
    LET total_paid == FMul(FMul(monthly_payment, FromInt(MonthsPerYear)),
                           FromInt(years))
    IN  FSub(total_paid, loan_amount_)

calculate_opportunity_cost(payment_diff, years, annual_investment_return) ==
    LET monthly_return == FDiv(annual_investment_return, FromInt(MonthsPerYear))
        months == years * MonthsPerYear
    IN  IF monthly_return.m > 0
        THEN FMul(payment_diff,
                  FDiv(FSub(FPow(FAdd(One, monthly_return), Whole(months)), One),
                       monthly_return))
        ELSE FMul(payment_diff, FromInt(months))

\* years is an exponent num/den; 1 + annual_inflation_rate > 0 in every
\* configuration, so the divisor is never zero.
calculate_inflation_adjusted_value(value, years, annual_inflation_rate_) ==
    FDiv(value, FPow(FAdd(One, annual_inflation_rate_), years))

\* ---------------------------------------------------------------------
\* Script state
\* ---------------------------------------------------------------------

VARIABLES
    loan_amount,             \* configuration, lines 102-106
    annual_interest_rate,
    investment_return_rate,
    annual_inflation_rate,
    monthly_salary,
    pc,                      \* where the script is
    error,                   \* the exception that ended the script, or "none"
    total_cost_30,           \* baseline, line 112
    term,                    \* loop variable of the sweep and of the second table
    term_results,            \* list of per-term records, line 115
    printed_nominal,         \* argument tuples of the rows printed by lines 179-190
    printed_adjusted         \* argument tuples of the rows printed by lines 208-246

config == <<loan_amount, annual_interest_rate, investment_return_rate,
            annual_inflation_rate, monthly_salary>>

vars == <<loan_amount, annual_interest_rate, investment_return_rate,
          annual_inflation_rate, monthly_salary, pc, error, total_cost_30,
          term, term_results, printed_nominal, printed_adjusted>>

\* A configuration, each value written as the decimal literal num/den.
Cfg(loan, rate, ret, infl, salary) ==
    [loan_amount            |-> Dec(loan[1], loan[2]),
     annual_interest_rate   |-> Dec(rate[1], rate[2]),
     investment_return_rate |-> Dec(ret[1], ret[2]),
     annual_inflation_rate  |-> Dec(infl[1], infl[2]),
     monthly_salary         |-> Dec(salary[1], salary[2])]

\* The configuration of the script (lines 102-106) and others the five
\* assignments could hold: a rate so high that (1 + r)^(-n) vanishes next
\* to 1, a rate so low that the payment formula loses most of its digits,
\* a zero interest rate, a zero return rate with a small salary, a salary
\* equal to the payment, a negative rate, a negative principal and a
\* negative salary.
Configurations ==
    { Cfg(<<2500000, 1>>, <<8, 100>>,  <<4, 10>>, <<28, 100>>, <<200000, 1>>),
      Cfg(<<2500000, 1>>, <<14, 10>>,  <<4, 10>>, <<28, 100>>, <<200000, 1>>),
      Cfg(<<2500000, 1>>, <<5, 1000>>, <<4, 10>>, <<28, 100>>, <<200000, 1>>),
      Cfg(<<2500000, 1>>, <<0, 1>>,    <<4, 10>>, <<28, 100>>, <<200000, 1>>),
      Cfg(<<2500000, 1>>, <<8, 100>>,  <<0, 1>>,  <<3, 100>>,  <<20000, 1>>),
      Cfg(<<2500000, 1>>, <<12, 1>>,   <<7, 100>>, <<0, 1>>,   <<2500000, 1>>),
      Cfg(<<2500000, 1>>, <<-1, 100>>, <<4, 10>>, <<28, 100>>, <<200000, 1>>),
      Cfg(<<-1000, 1>>,   <<8, 100>>,  <<7, 100>>, <<3, 100>>, <<20, 1>>),
      Cfg(<<2500000, 1>>, <<8, 100>>,  <<7, 100>>, <<3, 100>>, <<-100, 1>>) }

Init ==
    /\ \E c \in Configurations :
          /\ loan_amount = c.loan_amount
          /\ annual_interest_rate = c.annual_interest_rate
          /\ investment_return_rate = c.investment_return_rate
          /\ annual_inflation_rate = c.annual_inflation_rate
          /\ monthly_salary = c.monthly_salary
    /\ pc = "baseline"
    /\ error = "none"
    /\ total_cost_30 = Zero
    /\ term = 0
    /\ term_results = <<>>
    /\ printed_nominal = <<>>
    /\ printed_adjusted = <<>>

\* Lines 108-115: the 30-year baseline, then the empty result list.
Baseline ==
    /\ pc = "baseline"
    /\ LET payment_30 == calculate_monthly_payment(loan_amount,
                              annual_interest_rate, years_30)
           total_interest_30 == calculate_total_interest(loan_amount,
                                     payment_30.val, years_30)
       IN  IF payment_30.err # "none"
           THEN /\ pc' = "failed"
                /\ error' = payment_30.err
                /\ UNCHANGED total_cost_30
           ELSE /\ pc' = "sweep"
                /\ total_cost_30' = FAdd(loan_amount, total_interest_30)
                /\ UNCHANGED error
    /\ UNCHANGED <<config, term, term_results, printed_nominal, printed_adjusted>>

\* Variant without the term < 30 test of line 127.
InvestsAt30_in_term(t, monthly_payment) ==
    LET payment_diff == FSub(monthly_salary, monthly_payment)
    IN  IF payment_diff.m < 0
        THEN Zero
        ELSE calculate_opportunity_cost(payment_diff, t, investment_return_rate)

\* Variant without the payment_diff < 0 test of line 130.
InvestsShortfall_in_term(t, monthly_payment) ==
    LET payment_diff == FSub(monthly_salary, monthly_payment)
    IN  IF t < years_30
        THEN calculate_opportunity_cost(payment_diff, t, investment_return_rate)
        ELSE Zero

\* Lines 127-149: the value invested while the loan runs.
investment_value_in_term(t, monthly_payment) ==
    LET payment_diff == FSub(monthly_salary, monthly_payment)
    IN  IF t < years_30
        THEN IF payment_diff.m < 0
             THEN Zero
             ELSE calculate_opportunity_cost(payment_diff, t,
                                             investment_return_rate)
        ELSE Zero

\* Variant without the += of lines 144-146.
DropsRemaining_investment_value(t, monthly_payment) ==
    LET payment_diff == FSub(monthly_salary, monthly_payment)
        remaining_years == years_30 - t
    IN  IF t < years_30
        THEN IF payment_diff.m < 0
             THEN calculate_opportunity_cost(monthly_salary, remaining_years,
                                             investment_return_rate)
             ELSE investment_value_in_term(t, monthly_payment)
        ELSE Zero

\* Lines 127-149: the value invested up to year 30.
investment_value(t, monthly_payment) ==
    LET payment_diff == FSub(monthly_salary, monthly_payment)
        remaining_years == years_30 - t
    IN  IF t < years_30
        THEN IF payment_diff.m < 0
             THEN calculate_opportunity_cost(monthly_salary, remaining_years,
                                             investment_return_rate)
             ELSE FAdd(investment_value_in_term(t, monthly_payment),
                       calculate_opportunity_cost(monthly_salary, remaining_years,
                                                  investment_return_rate))
        ELSE Zero

\* The record lines 119-160 build for one term.
TermRecord(t, monthly_payment, baseline_cost) ==
    LET total_interest == calculate_total_interest(loan_amount, monthly_payment, t)
        total_cost     == FAdd(loan_amount, total_interest)
        savings        == FSub(baseline_cost, total_cost)
    IN  [term |-> t,
         monthly_payment |-> monthly_payment,
         total_interest |-> total_interest,
         total_cost |-> total_cost,
         savings |-> savings,
         investment_value_in_term |-> investment_value_in_term(t, monthly_payment),
         investment_value |-> investment_value(t, monthly_payment)]

\* Variant of the loop over range(1, 30).
StopsEarly_SweepTerm ==
    /\ pc = "sweep"
    /\ LET t == term + 1
           monthly_payment == calculate_monthly_payment(loan_amount,
                                   annual_interest_rate, t)
       IN  /\ term' = t
           /\ IF monthly_payment.err # "none"
              THEN /\ pc' = "failed"
                   /\ error' = monthly_payment.err
                   /\ UNCHANGED term_results
              ELSE /\ term_results' = Append(term_results,
                          TermRecord(t, monthly_payment.val, total_cost_30))
                   /\ pc' = IF t = years_30 - 1 THEN "nominal" ELSE "sweep"
                   /\ UNCHANGED error
    /\ UNCHANGED <<config, total_cost_30, printed_nominal, printed_adjusted>>

\* One iteration of the loop of lines 118-160.
SweepTerm ==
    /\ pc = "sweep"
    /\ LET t == term + 1
           monthly_payment == calculate_monthly_payment(loan_amount,
                                   annual_interest_rate, t)
       IN  /\ term' = t
           /\ IF monthly_payment.err # "none"
              THEN /\ pc' = "failed"
                   /\ error' = monthly_payment.err
                   /\ UNCHANGED term_results
              ELSE /\ term_results' = Append(term_results,
                          TermRecord(t, monthly_payment.val, total_cost_30))
                   /\ pc' = IF t = years_30 THEN "nominal" ELSE "sweep"
                   /\ UNCHANGED error
    /\ UNCHANGED <<config, total_cost_30, printed_nominal, printed_adjusted>>

\* One iteration of the loop of lines 179-190.
PrintNominal ==
    /\ pc = "nominal"
    /\ LET result == term_results[Len(printed_nominal) + 1]
       IN  printed_nominal' = Append(printed_nominal,
               <<result.term, result.monthly_payment, result.total_interest,
                 result.total_cost, result.savings,
                 result.investment_value_in_term, result.investment_value>>)
    /\ pc' = IF Len(printed_nominal) + 1 = Len(term_results)
             THEN "adjusted" ELSE "nominal"
    /\ UNCHANGED <<config, error, total_cost_30, term, term_results,
                   printed_adjusted>>

\* Variant discounting over the full term.
FullTerm_midpoint_years(t) == Whole(t)

\* Line 213: term / 2
midpoint_years(t) == Div2(t)

\* The row lines 209-246 print for one record.
AdjustedRow(result) ==
    LET inflation_adj_total_interest == calculate_inflation_adjusted_value(
            result.total_interest, midpoint_years(result.term),
            annual_inflation_rate)
        inflation_adj_total_cost == FAdd(loan_amount, inflation_adj_total_interest)
        inflation_adj_savings == calculate_inflation_adjusted_value(
            result.savings, Whole(30), annual_inflation_rate)
        inflation_adj_investment_IT == calculate_inflation_adjusted_value(
            result.investment_value_in_term, Whole(30), annual_inflation_rate)
        inflation_adj_investment == calculate_inflation_adjusted_value(
            result.investment_value, Whole(30), annual_inflation_rate)
    IN  <<result.term, result.monthly_payment, inflation_adj_total_interest,
          inflation_adj_total_cost, inflation_adj_savings,
          inflation_adj_investment_IT, inflation_adj_investment>>

\* Variant that stores the adjusted interest back into the record.
WritesBack_PrintAdjusted ==
    /\ pc = "adjusted"
    /\ LET i == Len(printed_adjusted) + 1
           result == term_results[i]
           row == AdjustedRow(result)
       IN  /\ term' = result.term
           /\ printed_adjusted' = Append(printed_adjusted, row)
           /\ term_results' = [term_results EXCEPT ![i].total_interest = row[3]]
    /\ pc' = IF Len(printed_adjusted) + 1 = Len(term_results)
             THEN "done" ELSE "adjusted"
    /\ UNCHANGED <<config, error, total_cost_30, printed_nominal>>

\* One iteration of the loop of lines 208-246.
PrintAdjusted ==
    /\ pc = "adjusted"
    /\ LET result == term_results[Len(printed_adjusted) + 1]
       IN  /\ term' = result.term
           /\ printed_adjusted' = Append(printed_adjusted, AdjustedRow(result))
    /\ pc' = IF Len(printed_adjusted) + 1 = Len(term_results)
             THEN "done" ELSE "adjusted"
    /\ UNCHANGED <<config, error, total_cost_30, term_results, printed_nominal>>

Next == Baseline \/ SweepTerm \/ PrintNominal \/ PrintAdjusted

Spec == Init /\ [][Next]_vars

\* ---------------------------------------------------------------------
\* Properties
\* ---------------------------------------------------------------------

Records == 1..Len(term_results)

SweepFinished == pc \in {"nominal", "adjusted", "done"}

\* C1: the record for term 30 has savings, investment_value_in_term and
\* investment_value all equal to 0, whatever the configuration.
C1_Term30AllZero ==
    \A i \in Records :
        term_results[i].term = 30 =>
            /\ term_results[i].savings = Zero
            /\ term_results[i].investment_value_in_term = Zero
            /\ term_results[i].investment_value = Zero

\* C1 witness: a finished sweep whose term-30 record follows records with
\* nonzero savings and a nonzero investment value.
C1_Witness ==
    /\ SweepFinished
    /\ Len(term_results) = 30
    /\ term_results[30].term = 30
    /\ term_results[29].savings # Zero
    /\ term_results[29].investment_value_in_term # Zero

\* C2: term_results is always the prefix for terms 1..k (the record at
\* position i has term i, and during the sweep k is the loop variable), and
\* once the sweep has finished it holds exactly 30 records.
C2_OneRecordPerTermInOrder ==
    /\ \A i \in Records : term_results[i].term = i
    /\ Len(term_results) <= 30
    /\ pc = "sweep" => Len(term_results) = term
    /\ SweepFinished => Len(term_results) = 30

\* C2 witness: the whole script has run and the list holds 30 records.
C2_Witness == pc = "done" /\ Len(term_results) = 30 /\ term_results[30].term = 30

C4_ZeroRateHandled ==
    (annual_interest_rate = Zero /\ loan_amount.m > 0) =>
        /\ error = "none"
        /\ pc # "failed"
        /\ \A i \in Records :
              term_results[i].monthly_payment =
                  FDiv(loan_amount, FromInt(MonthsPerYear * term_results[i].term))

InvalidInput == annual_interest_rate.m < 0 \/ loan_amount.m <= 0

\* C5: with an invalid input (negative interest rate, nonpositive
\* principal) the baseline computation fails with an error and no record
\* is ever emitted.
C5_InvalidInputFailsFast ==
    InvalidInput =>
        /\ term_results = <<>>
        /\ pc \in {"baseline", "failed"}
        /\ pc = "failed" => error # "none"

\* C6: for a positive principal and a positive interest rate, of any two
\* records the one with the shorter term has the strictly larger monthly
\* payment and the strictly smaller total interest.
C6_StrictMonotonicity ==
    (loan_amount.m > 0 /\ annual_interest_rate.m > 0) =>
        \A i \in Records : \A j \in Records :
            i < j =>
                /\ FGt(term_results[i].monthly_payment,
                       term_results[j].monthly_payment)
                /\ FLt(term_results[i].total_interest,
                       term_results[j].total_interest)

\* C7: every record's savings is the baseline total cost minus its own
\* total cost, savings never increases from one term to a longer one and is
\* 0 at term 30, and the baseline total cost does not change once the sweep
\* has started.
C7_SavingsAgainstBaseline ==
    /\ [](\A i \in Records :
            /\ term_results[i].savings =
                   FSub(total_cost_30, term_results[i].total_cost)
            /\ term_results[i].term = 30 => term_results[i].savings = Zero
            /\ \A j \in Records :
                  i < j => FGe(term_results[i].savings, term_results[j].savings))
    /\ [][pc # "baseline" => total_cost_30' = total_cost_30]_vars

C9_ReportingDoesNotMutate ==
    /\ [][SweepFinished => term_results' = term_results]_vars
    /\ [](\A i \in 1..Len(printed_nominal) :
            LET r == term_results[i] IN
            printed_nominal[i] =
                <<r.term, r.monthly_payment, r.total_interest, r.total_cost,
                  r.savings, r.investment_value_in_term, r.investment_value>>)
    /\ [](\A i \in 1..Len(printed_adjusted) :
            /\ printed_adjusted[i][1] = printed_nominal[i][1]
            /\ printed_adjusted[i][2] = printed_nominal[i][2])

\* C9 witness: both tables have been printed in full.
C9_Witness ==
    /\ pc = "done"
    /\ Len(printed_nominal) = 30
    /\ Len(printed_adjusted) = 30
    /\ Len(term_results) = 30

\* C10: with a nonnegative salary and a nonnegative return rate, every
\* record has 0 <= investment_value_in_term <= investment_value, and the
\* in-term value is 0 whenever the payment exceeds the salary.
C10_InvestmentValuesOrdered ==
    (monthly_salary.m >= 0 /\ investment_return_rate.m >= 0) =>
        \A i \in Records :
            LET r == term_results[i] IN
            /\ r.investment_value_in_term.m >= 0
            /\ FLe(r.investment_value_in_term, r.investment_value)
            /\ FLt(monthly_salary, r.monthly_payment) =>
                   r.investment_value_in_term = Zero

\* C10 witness: a record with a negative surplus and a positive total, next
\* to a record with a positive in-term value strictly below its total.
C10_Witness ==
    /\ monthly_salary.m >= 0
    /\ investment_return_rate.m >= 0
    /\ \E i \in Records :
          /\ FLt(monthly_salary, term_results[i].monthly_payment)
          /\ term_results[i].investment_value_in_term = Zero
          /\ term_results[i].investment_value.m > 0
    /\ \E j \in Records :
          /\ term_results[j].investment_value_in_term.m > 0
          /\ FLt(term_results[j].investment_value_in_term,
                 term_results[j].investment_value)

====
